---------------------------- MODULE Spec2Model ----------------------------
(***************************************************************************)
(* tonkonbot: an IRC log bot (src/tonkonbot.py).                           *)
(*                                                                         *)
(* The model covers MessageLogger, LogBot and LogBotFactory and the IRC    *)
(* client / connector callbacks that drive them.  Strings are sequences of *)
(* tokens (single characters where the code looks inside a string), so     *)
(* split, '%' formatting and '+' are computed and not assumed.  Every      *)
(* handler is an operator giving the straight-line sequence of effects     *)
(* ("ops") its body performs; Exec cuts that sequence at the operation     *)
(* that raises, and the actions apply the executed effects to the state.   *)
(***************************************************************************)
EXTENDS Naturals, Sequences, FiniteSets

(* ------------------------------ bounds -------------------------------- *)
\* connector.connect() calls in one run (the first one included)
MaxConnects == 3
\* tokens of a line that a failing write may leave in the file
MaxPartial == 1
\* lines the log file may hold
MaxLog == 5
\* lines the log file may hold where the file system may fail
MaxLogIO == 3
\* ERR_NICKNAMEINUSE notifications in one session
MaxCollisions == 2
\* opens and writes the file system fails in one run
MaxFaults == 1

(* ------------------------------ strings ------------------------------- *)
\* LogBot.nickname = 'tonkon'
BaseNick == <<"t", "o", "n", "k", "o", "n">>
\* config['channel'], handed to LogBotFactory.__init__
ChannelName == <<"t", "e", "s", "t">>
\* a channel the server may name that is not the configured one
OtherChannel == <<"#", "x">>
\* config['key']
ChannelKey == <<"k", "e", "y">>
\* the reply of privmsg to a private message
Refusal == <<"It isn't nice to whisper!  Play nice with the group.">>
\* time.strftime("[%H:%M:%S]", ...): the formatted clock, value not modelled
Timestamp == <<"[HH:MM:SS]">>
\* time.asctime(time.localtime(time.time())): value not modelled
Asctime == <<"<asctime>">>

\* raw sender identifiers the server may present
Users == { <<"a", "l", "i", "c", "e">>,
           <<"b", "o", "b", "!", "u", "!", "h">> }
Msgs == { <<"h", "e", "l", "l", "o">> }
NewNicks == { <<"a", "l">> }
Channels == { ChannelName, OtherChannel }

\* index of the first occurrence of c in s, 0 when absent
RECURSIVE IndexFrom(_, _, _)
IndexFrom(s, c, i) ==
    IF i > Len(s) THEN 0
    ELSE IF s[i] = c THEN i
    ELSE IndexFrom(s, c, i + 1)

\* s.split(sep, maxsplit): the parts of s between the first maxsplit
\* occurrences of sep, the rest of s as the last part
RECURSIVE split(_, _, _)
split(s, sep, maxsplit) ==
    LET i == IndexFrom(s, sep, 1)
    IN  IF maxsplit = 0 \/ i = 0
        THEN << s >>
        ELSE << SubSeq(s, 1, i - 1) >>
                 \o split(SubSeq(s, i + 1, Len(s)), sep, maxsplit - 1)

\* user.split('!', 1)[0]
SplitBang(s) == split(s, "!", 1)[1]

\* prefix.split('!')[0]: no limit on the number of parts
SplitAllBang(s) == split(s, "!", Len(s))[1]

(* ------------------------------ effects ------------------------------- *)
\* one effect of a handler: op names the call, self the LogBot issuing it
Op(name, self, a, b, c) ==
    [op |-> name, self |-> self, a |-> a, b |-> b, c |-> c]

\* logs/<channel>
Filename(channel) == <<"logs/">> \o channel

\* the line MessageLogger.log writes: '%s %s\n' % (timestamp, message)
logLine(message) == Timestamp \o <<" ">> \o message \o <<"\n">>

\* self.logger.log(message)
log(self, message) == Op("log", self.sid, logLine(message), <<>>, <<>>)

\* self.logger.close()
close(self) == Op("close", self.sid, <<>>, <<>>, <<>>)

\* the operations that touch the file system and may raise IOError
Fallible == {"open", "log"}


(* ------------------------------- state -------------------------------- *)
VARIABLES
    reactor,      \* "running" | "stopped": reactor.run() / reactor.stop()
    connector,    \* "connecting" | "connected" | "disconnected"
    connects,     \* connector.connect() calls so far, the first included
    losses,       \* clientConnectionLost calls so far
    failures,     \* clientConnectionFailed calls so far
    established,  \* buildProtocol calls so far (sessions created)
    p,            \* the LogBot of the live transport, or NoProtocol
    file,         \* content of logs/<channel>: its lines, the last maybe cut
    fileExists,   \* whether logs/<channel> exists
    opens,        \* open() calls that succeeded in this run
    handles,      \* sids of the LogBots whose file object is open
    ev,           \* the event delivered by the last step
    ops,          \* the effects the last step's handlers performed, in order
    fsFaults,     \* whether the file system may fail an open or a write
    faults,       \* opens and writes the file system has failed so far
    prevNick      \* self.nickname of the LogBot whose transport was lost last

(* ------------------------------ handlers ------------------------------ *)
\* a variant of alterCollidedNick: the library's default marker, '_'
alterCollidedNick_underscore(nickname) == nickname \o <<"_">>

\* LogBot.alterCollidedNick: nickname + '^'
alterCollidedNick(nickname) == nickname \o <<"^">>

\* a variant of buildProtocol: the new LogBot takes over the nickname that
\* the previous one ended with
buildProtocol_keepNick(sid) ==
    [sid |-> sid, logger |-> "absent", nickname |-> prevNick,
     attempted |-> prevNick, registered |-> FALSE, collisions |-> 0,
     joinSent |-> 0, joined |-> FALSE, secure |-> FALSE]

\* LogBotFactory.buildProtocol: p = LogBot(); p.factory = self.  A fresh LogBot
\* has the class attribute nickname, no logger attribute, has not registered,
\* and its transport has not completed the TLS handshake.
buildProtocol(sid) ==
    [sid |-> sid, logger |-> "absent", nickname |-> BaseNick,
     attempted |-> BaseNick, registered |-> FALSE, collisions |-> 0,
     joinSent |-> 0, joined |-> FALSE, secure |-> FALSE]

\* no LogBot: before the first transport and after a transport is gone
NoProtocol ==
    [sid |-> 0, logger |-> "absent", nickname |-> BaseNick,
     attempted |-> BaseNick, registered |-> FALSE, collisions |-> 0,
     joinSent |-> 0, joined |-> FALSE, secure |-> FALSE]

\* a variant of connectionMade: the log file opened with mode "w"
connectionMade_truncate(self, channel) ==
    << Op("register", self.sid, self.nickname, <<>>, <<>>),
       Op("open", self.sid, Filename(channel), <<"w">>, <<>>),
       log(self, <<"[connected at ">> \o Asctime \o <<"]">>) >>

\* LogBot.connectionMade: IRCClient.connectionMade registers self.nickname,
\* then the log file is opened in append mode and the connected line logged
connectionMade(self, channel) ==
    << Op("register", self.sid, self.nickname, <<>>, <<>>),
       Op("open", self.sid, Filename(channel), <<"a">>, <<>>),
       log(self, <<"[connected at ">> \o Asctime \o <<"]">>) >>

\* a variant of connectionLost: the logger is never closed
connectionLost_noClose(self) ==
    << log(self, <<"[disconnected at ">> \o Asctime \o <<"]">>) >>

\* a variant of connectionLost: the logger is closed without the last line
connectionLost_noLog(self) ==
    << close(self) >>

\* a variant of connectionLost: the logger is closed before the last line
connectionLost_closeFirst(self) ==
    << close(self),
       log(self, <<"[disconnected at ">> \o Asctime \o <<"]">>) >>

\* LogBot.connectionLost: the disconnected line is logged, then the logger closed
connectionLost(self) ==
    << log(self, <<"[disconnected at ">> \o Asctime \o <<"]">>),
       close(self) >>

\* a variant of signedOn: the join request is sent without the key
signedOn_noKey(self, channel, key) ==
    << Op("join", self.sid, channel, <<>>, <<>>) >>

\* LogBot.signedOn: self.join(self.factory.channel, self.factory.key)
signedOn(self, channel, key) ==
    << Op("join", self.sid, channel, key, <<>>) >>

\* a variant of joined: the configured channel is logged, not the one named
joined_configured(self, channel) ==
    << log(self, <<"[I have joined ">> \o ChannelName \o <<"]">>) >>

\* LogBot.joined
joined(self, channel) ==
    << log(self, <<"[I have joined ">> \o channel \o <<"]">>) >>

\* a variant of privmsg: the private branch does not return
privmsg_noReturn(self, user, channel, msg) ==
    LET u == SplitBang(user)
        first == log(self, <<"<">> \o u \o <<"> ">> \o msg)
    IN  IF channel = self.nickname
        THEN << first, Op("msg", self.sid, u, Refusal, <<>>),
                Op("command_handler", self.sid, u, channel, Refusal) >>
        ELSE << first, Op("command_handler", self.sid, u, channel, msg) >>

\* a variant of privmsg: the command handler is called before the line is logged
privmsg_dispatchFirst(self, user, channel, msg) ==
    LET u == SplitBang(user)
        first == log(self, <<"<">> \o u \o <<"> ">> \o msg)
    IN  IF channel = self.nickname
        THEN << first, Op("msg", self.sid, u, Refusal, <<>>) >>
        ELSE << Op("command_handler", self.sid, u, channel, msg), first >>

\* a variant of privmsg: the refusal is sent before the line is logged
privmsg_replyFirst(self, user, channel, msg) ==
    LET u == SplitBang(user)
        first == log(self, <<"<">> \o u \o <<"> ">> \o msg)
    IN  IF channel = self.nickname
        THEN << Op("msg", self.sid, u, Refusal, <<>>), first >>
        ELSE << first, Op("command_handler", self.sid, u, channel, msg) >>

\* a variant of privmsg: the target is compared with the configured nickname
privmsg_configuredNick(self, user, channel, msg) ==
    LET u == SplitBang(user)
        first == log(self, <<"<">> \o u \o <<"> ">> \o msg)
    IN  IF channel = BaseNick
        THEN << first, Op("msg", self.sid, u, Refusal, <<>>) >>
        ELSE << first, Op("command_handler", self.sid, u, channel, msg) >>

\* LogBot.privmsg
privmsg(self, user, channel, msg) ==
    LET u == SplitBang(user)
        first == log(self, <<"<">> \o u \o <<"> ">> \o msg)
    IN  IF channel = self.nickname
        THEN << first, Op("msg", self.sid, u, Refusal, <<>>) >>
        ELSE << first, Op("command_handler", self.sid, u, channel, msg) >>

\* a variant of action: the action is also handed to the command handler
action_dispatch(self, user, channel, msg) ==
    LET u == SplitBang(user)
    IN  << log(self, <<"* ">> \o u \o <<" ">> \o msg),
           Op("command_handler", self.sid, u, channel, msg) >>

\* LogBot.action
action(self, user, channel, msg) ==
    LET u == SplitBang(user)
    IN  << log(self, <<"* ">> \o u \o <<" ">> \o msg) >>

\* a variant of irc_NICK: the prefix is logged as received
irc_NICK_rawPrefix(self, prefix, params) ==
    LET old_nick == prefix
        new_nick == params[1]
    IN  << log(self, old_nick \o <<" is now known as ">> \o new_nick) >>

\* LogBot.irc_NICK
irc_NICK(self, prefix, params) ==
    LET old_nick == SplitAllBang(prefix)
        new_nick == params[1]
    IN  << log(self, old_nick \o <<" is now known as ">> \o new_nick) >>

\* a variant of clientConnectionLost: no reconnect
clientConnectionLost_idle ==
    << >>

\* a variant of clientConnectionLost: the reactor is stopped, as on a failure
clientConnectionLost_stop ==
    << Op("stop", 0, <<>>, <<>>, <<>>) >>

\* LogBotFactory.clientConnectionLost: connector.connect()
clientConnectionLost ==
    << Op("connect", 0, <<>>, <<>>, <<>>) >>

\* LogBotFactory.clientConnectionFailed: print the reason, reactor.stop()
clientConnectionFailed ==
    << Op("print", 0, <<"connection failed:">>, <<>>, <<>>),
       Op("stop", 0, <<>>, <<>>, <<>>) >>

(* ------------------------------ execution ----------------------------- *)
\* Runs ops[i..] in order.  An operation raises when it is the one the file
\* system fails (fault.at), when it uses self.logger while there is no such
\* attribute (AttributeError), or when it writes to a closed file (ValueError);
\* closing a closed file is no error.  What follows the raising operation in
\* the handler is not executed.  A write the file system fails may have put
\* the first fault.cut tokens of its line into the file: partial.
RECURSIVE Run(_, _, _, _, _)
Run(hops, i, logger, fault, acc) ==
    IF i > Len(hops)
    THEN [done |-> acc, raised |-> FALSE, logger |-> logger, partial |-> << >>]
    ELSE LET o == hops[i]
         IN  IF \/ (o.op = "log" /\ logger # "open")
                \/ (o.op = "close" /\ logger = "absent")
             THEN [done |-> acc, raised |-> TRUE, logger |-> logger,
                   partial |-> << >>]
             ELSE IF i = fault.at
             THEN [done |-> acc, raised |-> TRUE, logger |-> logger,
                   partial |-> IF o.op = "log"
                               THEN SubSeq(o.a, 1, fault.cut) ELSE << >>]
             ELSE Run(hops, i + 1,
                      IF o.op = "open" THEN "open"
                      ELSE IF o.op = "close" THEN "closed"
                      ELSE logger,
                      fault, Append(acc, o))

\* whether the file ends in the middle of a line
Unterminated(f) == f # << >> /\ f[Len(f)][Len(f[Len(f)])] # "\n"

\* file.write(data) in append mode: data goes to the end of the file, onto
\* the last line when that line was left unterminated
Write(f, data) ==
    IF data = << >> THEN f
    ELSE IF Unterminated(f)
    THEN [f EXCEPT ![Len(f)] = f[Len(f)] \o data]
    ELSE Append(f, data)

\* the file's content after the executed operations: open(..., "a") keeps it,
\* a "w" open would empty it, write() appends a line
RECURSIVE FileAfter(_, _)
FileAfter(f, done) ==
    IF done = <<>> THEN f
    ELSE LET o == Head(done)
         IN  FileAfter(IF o.op = "open"
                       THEN (IF o.b = <<"a">> THEN f ELSE <<>>)
                       ELSE IF o.op = "log" THEN Write(f, o.a)
                       ELSE f,
                       Tail(done))

\* the LogBots holding an open file object after the executed operations
RECURSIVE HandlesAfter(_, _)
HandlesAfter(h, done) ==
    IF done = <<>> THEN h
    ELSE LET o == Head(done)
         IN  HandlesAfter(IF o.op = "open" THEN h \cup {o.self}
                          ELSE IF o.op = "close" THEN h \ {o.self}
                          ELSE h,
                          Tail(done))

\* how many of the executed operations are calls of name
Count(done, name) == Len(SelectSeq(done, LAMBDA o : o.op = name))

vars == << reactor, connector, connects, losses, failures, established, p,
           file, fileExists, opens, handles, ev, ops, fsFaults, faults,
           prevNick >>

supervisor == << reactor, connector, connects, losses, failures, established >>

Event(kind, user, channel, msg, raised) ==
    [kind |-> kind, user |-> user, channel |-> channel, msg |-> msg,
     raised |-> raised]

\* what an earlier run of the bot left in the log: one closed session
PriorLog ==
    << logLine(<<"[connected at ">> \o Asctime \o <<"]">>),
       logLine(<<"[disconnected at ">> \o Asctime \o <<"]">>) >>

\* __main__: the factory is created and reactor.connectSSL starts the first
\* connection attempt; reactor.run() is running
InitCommon ==
    /\ reactor = "running"
    /\ connector = "connecting"
    /\ connects = 1
    /\ losses = 0
    /\ failures = 0
    /\ established = 0
    /\ p = NoProtocol
    /\ fileExists \in BOOLEAN
    /\ file = IF fileExists THEN PriorLog ELSE <<>>
    /\ opens = 0
    /\ handles = {}
    /\ ev = Event("start", <<>>, <<>>, <<>>, FALSE)
    /\ ops = <<>>
    /\ prevNick = BaseNick
    /\ faults = 0

Init == InitCommon /\ fsFaults = FALSE

InitIO == InitCommon /\ fsFaults = TRUE

\* no operation is failed by the file system
NoFault == [at |-> 0, cut |-> 0]

\* how a handler may be failed by the file system: at which operation, and,
\* for a write, after how many tokens of the line (never the whole line);
\* a run has at most MaxFaults such failures
FailPoints(hops) ==
    {NoFault} \cup
    (IF fsFaults /\ faults < MaxFaults
     THEN {ft \in [at : 1..Len(hops), cut : 0..MaxPartial] :
             /\ hops[ft.at].op \in Fallible
             /\ ft.cut = 0 \/ (hops[ft.at].op = "log"
                               /\ ft.cut < Len(hops[ft.at].a))}
     ELSE {})

\* the effects of the executed operations on the file and its handles
FileEffects(done, partial) ==
    /\ file' = Write(FileAfter(file, done), partial)
    /\ handles' = HandlesAfter(handles, done)
    /\ opens' = opens + Count(done, "open")
    /\ fileExists' = (fileExists \/ Count(done, "open") > 0)

\* The protocol layer delivers event e to the LogBot: q is the LogBot as the
\* layer has updated it before the callback, hops the callback's operations.
\* A callback that raises leaves the LogBot as it is at that point; the
\* session goes on and the next event is delivered as usual.
Deliver(e, q, hops) ==
    \E fault \in FailPoints(hops) :
        LET r == Run(hops, 1, q.logger, fault, <<>>)
        IN  /\ p' = [q EXCEPT !.logger = r.logger]
            /\ faults' = IF fault = NoFault THEN faults ELSE faults + 1
            /\ ev' = [e EXCEPT !.raised = r.raised]
            /\ ops' = r.done
            /\ FileEffects(r.done, r.partial)

\* the number of lines the log may reach
LogBound == IF fsFaults THEN MaxLogIO ELSE MaxLog

\* a LogBot is attached to a live transport
Live == reactor = "running" /\ connector = "connected" /\ p.sid # 0

\* why a transport may be lost: closed or reset at any time, or, while the
\* TLS handshake of reactor.connectSSL is still going on, a failed negotiation
ConnectionDone == <<"ConnectionDone">>
SSLError == <<"SSL.Error">>
Reasons(self) == IF self.secure THEN {ConnectionDone}
                 ELSE {ConnectionDone, SSLError}

(* ------------------------------ actions ------------------------------- *)
\* the TCP connection of reactor.connectSSL is established: buildProtocol,
\* then connectionMade; the TLS handshake starts after that
ConnectDone ==
    /\ reactor = "running"
    /\ connector = "connecting"
    /\ Len(file) + 2 <= LogBound
    /\ connector' = "connected"
    /\ established' = established + 1
    /\ Deliver(Event("connectionMade", <<>>, <<>>, <<>>, FALSE),
               buildProtocol(established + 1),
               connectionMade(buildProtocol(established + 1), ChannelName))
    /\ UNCHANGED << reactor, connects, losses, failures, fsFaults, prevNick >>

\* the connection attempt fails: clientConnectionFailed
ConnectFailed ==
    /\ reactor = "running"
    /\ connector = "connecting"
    /\ LET done == clientConnectionFailed
       IN  /\ reactor' = IF Count(done, "stop") > 0 THEN "stopped" ELSE reactor
           /\ connector' = IF Count(done, "connect") > 0
                           THEN "connecting" ELSE "disconnected"
           /\ connects' = connects + Count(done, "connect")
           /\ ops' = done
    /\ failures' = failures + 1
    /\ ev' = Event("clientConnectionFailed", <<>>, <<>>, <<>>, FALSE)
    /\ UNCHANGED << losses, established, p, file, fileExists, opens, handles,
                    fsFaults, faults, prevNick >>

\* the TLS handshake of the session's transport completes
HandshakeDone ==
    /\ Live
    /\ ~p.secure
    /\ p' = [p EXCEPT !.secure = TRUE]
    /\ ev' = Event("handshake", <<>>, <<>>, <<>>, FALSE)
    /\ ops' = <<>>
    /\ UNCHANGED << supervisor, file, fileExists, opens, handles, fsFaults,
                    faults, prevNick >>

\* the transport is lost, a failed TLS negotiation included:
\* LogBot.connectionLost(reason), then, unless that raised, the connector
\* tells the factory (clientConnectionLost)
TransportLost ==
    /\ reactor = "running"
    /\ connector = "connected"
    /\ p.sid # 0
    /\ connects < MaxConnects
    /\ Len(file) < LogBound
    /\ \E fault \in FailPoints(connectionLost(p)), reason \in Reasons(p) :
        LET r == Run(connectionLost(p), 1, p.logger, fault, <<>>)
            done == IF r.raised THEN <<>> ELSE clientConnectionLost
        IN  /\ FileEffects(r.done, r.partial)
            /\ ops' = r.done \o done
            /\ ev' = Event("connectionLost", <<>>, <<>>, reason, r.raised)
            /\ faults' = IF fault = NoFault THEN faults ELSE faults + 1
            /\ losses' = IF r.raised THEN losses ELSE losses + 1
            /\ reactor' = IF Count(done, "stop") > 0 THEN "stopped" ELSE reactor
            /\ connector' = IF Count(done, "connect") > 0
                            THEN "connecting"
                            ELSE IF r.raised THEN connector ELSE "disconnected"
            /\ connects' = connects + Count(done, "connect")
    /\ p' = NoProtocol
    /\ prevNick' = p.nickname
    /\ UNCHANGED << failures, established, fsFaults >>

\* ERR_NICKNAMEINUSE while registering: the attempted nickname is altered
\* and resubmitted
NickCollision ==
    /\ Live
    /\ p.secure
    /\ ~p.registered
    /\ p.collisions < MaxCollisions
    /\ LET q == [p EXCEPT !.attempted = alterCollidedNick(p.attempted),
                          !.collisions = p.collisions + 1]
       IN  Deliver(Event("collision", <<>>, <<>>, <<>>, FALSE), q,
                   << Op("setNick", q.sid, q.attempted, <<>>, <<>>) >>)
    /\ UNCHANGED << supervisor, fsFaults, prevNick >>

\* RPL_WELCOME: the attempted nickname is accepted, then signedOn
Welcome ==
    /\ Live
    /\ p.secure
    /\ ~p.registered
    /\ LET q == [p EXCEPT !.nickname = p.attempted, !.registered = TRUE,
                          !.joinSent = p.joinSent
                              + Count(signedOn(p, ChannelName, ChannelKey), "join")]
       IN  Deliver(Event("signedOn", <<>>, <<>>, <<>>, FALSE), q,
                   signedOn(q, ChannelName, ChannelKey))
    /\ UNCHANGED << supervisor, fsFaults, prevNick >>

\* the server confirms a join the bot asked for: joined(channel)
JoinConfirmed ==
    /\ Live
    /\ p.joinSent > 0
    /\ ~p.joined
    /\ Len(file) + 1 < LogBound
    /\ \E ch \in Channels :
        Deliver(Event("joined", <<>>, ch, <<>>, FALSE),
                [p EXCEPT !.joined = TRUE], joined(p, ch))
    /\ UNCHANGED << supervisor, fsFaults, prevNick >>

\* the channels a PRIVMSG may be addressed to: the channel, the configured
\* nickname, an altered nickname, and the nickname the session registered under
Targets == { ChannelName, BaseNick, alterCollidedNick(BaseNick), p.nickname }

\* PRIVMSG: privmsg(user, channel, msg)
PrivMsg ==
    /\ Live
    /\ p.registered
    /\ Len(file) + 1 < LogBound
    /\ \E user \in Users, channel \in Targets, msg \in Msgs :
        Deliver(Event("privmsg", user, channel, msg, FALSE), p,
                privmsg(p, user, channel, msg))
    /\ UNCHANGED << supervisor, fsFaults, prevNick >>

\* CTCP ACTION: action(user, channel, msg)
Action ==
    /\ Live
    /\ p.registered
    /\ Len(file) + 1 < LogBound
    /\ \E user \in Users, msg \in Msgs :
        Deliver(Event("action", user, ChannelName, msg, FALSE), p,
                action(p, user, ChannelName, msg))
    /\ UNCHANGED << supervisor, fsFaults, prevNick >>

\* NICK: irc_NICK(prefix, params)
NickChange ==
    /\ Live
    /\ p.registered
    /\ Len(file) + 1 < LogBound
    /\ \E prefix \in Users, new \in NewNicks :
        Deliver(Event("irc_NICK", prefix, <<>>, new, FALSE), p,
                irc_NICK(p, prefix, <<new>>))
    /\ UNCHANGED << supervisor, fsFaults, prevNick >>

Next ==
    \/ ConnectDone
    \/ ConnectFailed
    \/ HandshakeDone
    \/ TransportLost
    \/ NickCollision
    \/ Welcome
    \/ JoinConfirmed
    \/ PrivMsg
    \/ Action
    \/ NickChange

\* the bot with a file system that works
Spec == Init /\ [][Next]_vars

\* the bot with a file system that may fail any open or write
SpecIO == InitIO /\ [][Next]_vars


(* ------------------------------- claims ------------------------------- *)
\* a step that ends a session: the transport of the live LogBot is lost
SessionEnds == p.sid # 0 /\ p'.sid = 0

\* C1: each mid-session transport loss (clientConnectionLost) issues exactly
\* one reconnect attempt in the same step and leaves the reactor running, so
\* after N losses the connector has been asked to connect N more times than
\* the first attempt; no backoff, no retry limit.
C1_ReconnectPerLoss ==
    /\ [](connects = 1 + losses)
    /\ [][SessionEnds =>
            /\ losses' = losses + 1
            /\ connects' = connects + 1
            /\ connector' = "connecting"
            /\ reactor' = "running"
            /\ Count(ops', "connect") = 1
            /\ Count(ops', "stop") = 0]_vars

\* two consecutive losses, two reconnect attempts, the reactor still running
C1_Witness == losses = 2 /\ connects = 3 /\ reactor = "running"

\* C2 as stated: the reactor is stopped only when no session was ever
\* established (only the very first connection attempt is fatal).
C2_StoppedOnlyOnFirstAttempt == reactor = "stopped" => established = 0

\* C2 as amended: the reactor is stopped only by clientConnectionFailed, on a
\* failed connection attempt, the first one or a reconnect attempt after
\* earlier sessions; a mid-session transport loss never stops it.
C2_StoppedOnlyByFailedAttempt ==
    /\ [](reactor = "stopped" =>
            failures = 1 /\ ev.kind = "clientConnectionFailed")
    /\ [][reactor # reactor' =>
            /\ connector = "connecting"
            /\ failures' = failures + 1
            /\ Count(ops', "stop") = 1]_vars
    /\ [][SessionEnds => reactor' = "running"]_vars

\* a reconnect attempt failed after a session had been established
C2_Witness == reactor = "stopped" /\ established >= 1 /\ losses >= 1

\* the line '<sender> text' of a message event, sender stripped
MessageLine(e) == logLine(<<"<">> \o SplitBang(e.user) \o <<"> ">> \o e.msg)

\* C3: a privmsg whose target is the bot's own nickname writes the line
\* '<sender> text', then sends the refusal to the stripped sender, and does
\* nothing else: the command handler is not called.
C3_PrivateMessageRefused ==
    (ev.kind = "privmsg" /\ ev.channel = p.nickname) =>
        /\ ops = << Op("log", p.sid, MessageLine(ev), <<>>, <<>>),
                    Op("msg", p.sid, SplitBang(ev.user), Refusal, <<>>) >>
        /\ Count(ops, "command_handler") = 0
        /\ file # <<>> /\ file[Len(file)] = MessageLine(ev)

\* a private message from a sender with routing metadata was refused
C3_Witness ==
    /\ ev.kind = "privmsg" /\ ev.channel = p.nickname
    /\ ev.user # SplitBang(ev.user)
    /\ Count(ops, "msg") = 1

\* C4: a privmsg whose target is not the bot's nickname writes the line
\* '<sender> text' and then calls the command handler once with
\* (connection, stripped sender, channel, text); no refusal is sent.
C4_PublicMessageDispatched ==
    (ev.kind = "privmsg" /\ ev.channel # p.nickname) =>
        /\ ops = << Op("log", p.sid, MessageLine(ev), <<>>, <<>>),
                    Op("command_handler", p.sid, SplitBang(ev.user),
                       ev.channel, ev.msg) >>
        /\ Count(ops, "msg") = 0
        /\ file # <<>> /\ file[Len(file)] = MessageLine(ev)

\* a channel message from a sender with routing metadata was dispatched
C4_Witness ==
    /\ ev.kind = "privmsg" /\ ev.channel = ChannelName
    /\ ev.user # SplitBang(ev.user)
    /\ Count(ops, "command_handler") = 1

\* C5: at most one LogBot holds the log file open, it is the live one, and
\* a file object is opened only when no other is open.
C5_OneSessionOneHandle ==
    /\ [](/\ Cardinality(handles) <= 1
          /\ (p.sid # 0 /\ p.logger = "open" => handles = {p.sid})
          /\ (p.sid = 0 => handles = {}))
    /\ [][opens' # opens => handles = {} /\ handles' = {p'.sid}]_vars

\* a second session holds the file after the first one released it
C5_Witness == established = 2 /\ handles = {2} /\ p.logger = "open"

ConnectedLine == logLine(<<"[connected at ">> \o Asctime \o <<"]">>)

DisconnectedLine == logLine(<<"[disconnected at ">> \o Asctime \o <<"]">>)

\* whether f[i..] continues a log of connect ... disconnect segments; inside
\* tells whether line i lies within an open segment.  The result is whether
\* the log is well formed and ends inside a segment exactly when open is true.
RECURSIVE Segments(_, _, _, _)
Segments(f, i, inside, open) ==
    IF i > Len(f) THEN inside = open
    ELSE IF f[i] = ConnectedLine THEN ~inside /\ Segments(f, i + 1, TRUE, open)
    ELSE IF f[i] = DisconnectedLine THEN inside /\ Segments(f, i + 1, FALSE, open)
    ELSE inside /\ Segments(f, i + 1, inside, open)

\* the line the event is to produce, none for an event that logs nothing
ExpectedLines(e) ==
    CASE e.kind = "connectionMade" -> << ConnectedLine >>
      [] e.kind = "connectionLost" -> << DisconnectedLine >>
      [] e.kind = "joined" ->
            << logLine(<<"[I have joined ">> \o e.channel \o <<"]">>) >>
      [] e.kind = "privmsg" -> << MessageLine(e) >>
      [] e.kind = "action" ->
            << logLine(<<"* ">> \o SplitBang(e.user) \o <<" ">> \o e.msg) >>
      [] e.kind = "irc_NICK" ->
            << logLine(SplitBang(e.user) \o <<" is now known as ">> \o e.msg) >>
      [] OTHER -> << >>

\* C6: every event appends its own line at the end of the file, so the lines
\* stand in the order of the events; the file is a sequence of segments, each
\* opened by a connected line and closed by a disconnected line, never nested,
\* the last one open exactly while a session is live.
C6_OrderedSegments ==
    /\ [](Segments(file, 1, FALSE, p.sid # 0))
    /\ [][file' = file \o ExpectedLines(ev')]_vars

\* connect, joined(test), message(alice, test, hello), disconnect
C6_Witness ==
    file = << ConnectedLine,
              logLine(<<"[I have joined ">> \o ChannelName \o <<"]">>),
              logLine(<<"<">> \o <<"a", "l", "i", "c", "e">> \o <<"> ">>
                      \o <<"h", "e", "l", "l", "o">>),
              DisconnectedLine >>

\* k marker characters
Carets(k) == [i \in 1..k |-> "^"]

\* C7: after k collisions the candidate nickname is the configured one
\* followed by k '^', each collision appending exactly one; the join request
\* and the joined line come only after the candidate has been accepted.
C7_CollisionNicknames ==
    /\ [](p.sid # 0 =>
            /\ p.attempted = BaseNick \o Carets(p.collisions)
            /\ (p.joinSent > 0 \/ p.joined) =>
                    (p.registered /\ p.nickname = p.attempted))
    /\ [][p'.sid = p.sid /\ p'.collisions # p.collisions =>
            /\ p'.attempted = Append(p.attempted, "^")
            /\ ~p'.registered /\ p'.joinSent = 0 /\ ~p'.joined
            /\ ops' = << Op("setNick", p.sid, p'.attempted, <<>>, <<>>) >>]_vars

\* two collisions, then the altered nickname accepted and the channel joined
C7_Witness ==
    /\ p.collisions = 2 /\ p.joined
    /\ p.nickname = BaseNick \o <<"^", "^">>

IsPrefix(a, b) == Len(a) <= Len(b) /\ SubSeq(b, 1, Len(a)) = a

\* C8: the log only grows: every step leaves the earlier content as a prefix.
C8_LogNeverTruncated == [][IsPrefix(file, file')]_vars

\* a second session has opened the log holding the first session's lines
C8_Witness == opens = 2 /\ p.logger = "open" /\ Len(file) >= 4

\* the first connection attempt has failed at the transport level: it was
\* reported to clientConnectionFailed, or the first transport was lost to a
\* failed TLS negotiation
FirstAttemptFailed ==
    \/ failures > 0 /\ established = 0
    \/ /\ established = 1 /\ p = NoProtocol
       /\ ev.kind = "connectionLost" /\ ev.msg = SSLError

\* C9: when the first attempt fails at the transport level, a failed TLS
\* negotiation included, the reactor is stopped, no session registered, no
\* further connect was issued, and the log file was neither opened, created
\* nor written.
C9_FirstAttemptFailureTerminates ==
    FirstAttemptFailed =>
        /\ reactor = "stopped"
        /\ connects = 1
        /\ p = NoProtocol
        /\ opens = 0 /\ handles = {}
        /\ file = (IF fileExists THEN PriorLog ELSE <<>>)

\* C10 as stated: a private message always gets the refusal reply, also when
\* the log write fails.
C10_AlwaysRefused ==
    (ev.kind = "privmsg" /\ ev.channel = p.nickname) =>
        Count(ops, "msg") = 1

\* C10 as amended: a private message gets the refusal reply exactly when its
\* log write succeeds; when the write fails the handler raises before the
\* reply and nothing is sent.
C10_RefusedIffLogged ==
    (ev.kind = "privmsg" /\ ev.channel = p.nickname) =>
        IF ev.raised
        THEN ops = << >>
        ELSE ops = << Op("log", p.sid, MessageLine(ev), <<>>, <<>>),
                      Op("msg", p.sid, SplitBang(ev.user), Refusal, <<>>) >>

\* the log write of a private message failed
C10_Witness ==
    ev.kind = "privmsg" /\ ev.channel = p.nickname /\ ev.raised

\* C11 as stated: when the transport is lost while the LogBot has no logger
\* (open() failed in connectionMade), connectionLost skips the log call
\* without raising, and the factory is told, so that it reconnects.
C11_LossWithoutLoggerReconnects ==
    [][(SessionEnds /\ p.logger = "absent") =>
        /\ ~ev'.raised
        /\ Count(ops', "log") = 0
        /\ Count(ops', "connect") = 1
        /\ connector' = "connecting"]_vars

\* the line '[I have joined <channel>]' of a join confirmation
JoinedLine(channel) == logLine(<<"[I have joined ">> \o channel \o <<"]">>)

\* C12 as stated: a join confirmation that names a channel other than the
\* configured one does not produce the joined line.
C12_OnlyConfiguredChannelLogged ==
    (ev.kind = "joined" /\ ev.channel # ChannelName) =>
        (Count(ops, "log") = 0 /\ file[Len(file)] # JoinedLine(ev.channel))

\* C12 as amended: the joined line is written only in response to a join
\* confirmation, and every join confirmation writes it, naming the channel
\* the confirmation names, the configured one or any other.
C12_JoinedLineNamesConfirmedChannel ==
    /\ [](ev.kind = "joined" =>
            /\ ops = << Op("log", p.sid, JoinedLine(ev.channel), <<>>, <<>>) >>
            /\ file # <<>> /\ file[Len(file)] = JoinedLine(ev.channel)
            /\ p.joined)
    /\ [][(\E ch \in Channels :
              /\ Len(file') > Len(file)
              /\ file'[Len(file')] = JoinedLine(ch))
          => ev'.kind = "joined"]_vars
    /\ [][(p'.sid = p.sid /\ p'.joined # p.joined) => ev'.kind = "joined"]_vars

\* a confirmation naming another channel has written its joined line
C12_Witness ==
    /\ ev.kind = "joined" /\ ev.channel = OtherChannel
    /\ file[Len(file)] = JoinedLine(OtherChannel)

\* C13: a session has issued no join request before it is registered and
\* exactly one after, sent by signedOn for the configured channel and key;
\* its joined line comes only after that request.
C13_OneJoinRequestOnSignOn ==
    /\ [](p.sid # 0 =>
            /\ p.joinSent = (IF p.registered THEN 1 ELSE 0)
            /\ p.joined => p.joinSent = 1)
    /\ [](ev.kind = "signedOn" =>
            ops = << Op("join", p.sid, ChannelName, ChannelKey, <<>>) >>)
    /\ [](Count(ops, "join") > 0 => ev.kind = "signedOn")
    /\ [][ev'.kind = "joined" => (p.sid = p'.sid /\ p.joinSent = 1)]_vars

\* a session signed on, asked to join once and logged the joined line
C13_Witness ==
    /\ p.registered /\ p.joinSent = 1 /\ p.joined
    /\ file[Len(file)] = JoinedLine(ChannelName)

\* C14: after k > 0 collisions the session is registered under the configured
\* nickname followed by k '^', and a privmsg addressed to that nickname is
\* private: the refusal is sent and the command handler is not called.
C14_AlteredNicknameIsPrivate ==
    (/\ ev.kind = "privmsg"
     /\ p.collisions > 0
     /\ ev.channel = BaseNick \o Carets(p.collisions)) =>
        /\ p.nickname = ev.channel
        /\ ops = << Op("log", p.sid, MessageLine(ev), <<>>, <<>>),
                    Op("msg", p.sid, SplitBang(ev.user), Refusal, <<>>) >>
        /\ Count(ops, "command_handler") = 0

\* a message to 'tonkon^^' after two collisions was refused
C14_Witness ==
    /\ ev.kind = "privmsg"
    /\ p.collisions = 2
    /\ ev.channel = BaseNick \o <<"^", "^">>
    /\ Count(ops, "msg") = 1

\* the line '* sender text' of an action event, sender stripped
ActionLine(e) == logLine(<<"* ">> \o SplitBang(e.user) \o <<" ">> \o e.msg)

\* the line 'old is now known as new' of a nick-change event, old stripped
NickLine(e) == logLine(SplitBang(e.user) \o <<" is now known as ">> \o e.msg)

\* C15: an action event writes the one line '* sender text', a nick-change
\* event the one line 'old is now known as new'; neither calls the command
\* handler nor sends anything.
C15_ActionAndNickOnlyLogged ==
    /\ ev.kind = "action" =>
        /\ ops = << Op("log", p.sid, ActionLine(ev), <<>>, <<>>) >>
        /\ file # <<>> /\ file[Len(file)] = ActionLine(ev)
    /\ ev.kind = "irc_NICK" =>
        /\ ops = << Op("log", p.sid, NickLine(ev), <<>>, <<>>) >>
        /\ file # <<>> /\ file[Len(file)] = NickLine(ev)
    /\ ev.kind \in {"action", "irc_NICK"} =>
        Count(ops, "command_handler") + Count(ops, "msg") = 0

\* a nick change was logged right after an action was logged
C15_Witness ==
    /\ ev.kind = "irc_NICK" /\ Len(ops) = 1 /\ Len(file) >= 2
    /\ \E u \in Users, m \in Msgs :
          file[Len(file) - 1] = logLine(<<"* ">> \o SplitBang(u) \o <<" ">> \o m)

\* the file ends with the whole of line: as its last line, or as the end of
\* its last line when the line was written after an unterminated fragment
EndsWith(f, line) ==
    /\ f # << >>
    /\ LET l == f[Len(f)]
       IN  /\ Len(l) >= Len(line)
           /\ SubSeq(l, Len(l) - Len(line) + 1, Len(l)) = line

\* C16: a privmsg whose log write fails raises and does nothing else; the
\* command handler is called, or the refusal sent, only after the message's
\* whole line has been written to the end of the file.
C16_NothingWithoutLogLine ==
    ev.kind = "privmsg" =>
        /\ ev.raised => ops = << >>
        /\ (Count(ops, "msg") + Count(ops, "command_handler") > 0) =>
            /\ ~ev.raised
            /\ ops[1] = Op("log", p.sid, MessageLine(ev), <<>>, <<>>)
            /\ Len(ops) = 2
            /\ EndsWith(file, MessageLine(ev))

\* the log write of a channel message failed in the middle of the line:
\* nothing was dispatched
C16_Witness ==
    /\ ev.kind = "privmsg" /\ ev.channel = ChannelName
    /\ ev.raised /\ ops = << >>
    /\ p.logger = "open" /\ faults = 1 /\ Unterminated(file)

\* C17: every logger that was opened is closed once, in the step that ends
\* its session, by that session's connectionLost and after the disconnected
\* line; a log call is made only on the open logger of the live session, so
\* no handler raises for a logger that is missing or closed.
C17_LoggerLifecycle ==
    /\ [](/\ opens = established
          /\ handles = (IF p.sid # 0 THEN {p.sid} ELSE {})
          /\ (p.sid # 0 => p.logger = "open")
          /\ ~ev.raised)
    /\ [][(Count(ops', "close") > 0 \/ SessionEnds) =>
            /\ SessionEnds
            /\ ev'.kind = "connectionLost"
            /\ p.logger = "open" /\ handles = {p.sid} /\ handles' = {}
            /\ Len(ops') >= 2
            /\ ops'[1] = Op("log", p.sid, DisconnectedLine, <<>>, <<>>)
            /\ ops'[2] = Op("close", p.sid, <<>>, <<>>, <<>>)
            /\ Count(ops', "close") = 1]_vars
    /\ [][\A i \in 1..Len(ops') :
            ops'[i].op = "log" =>
                /\ ops'[i].self # 0
                /\ ops'[i].self \in (handles \cup handles')
                /\ \A j \in 1..(i - 1) : ops'[j].op # "close"]_vars

\* two sessions have each opened their logger and closed it
C17_Witness ==
    /\ ev.kind = "connectionLost"
    /\ opens = 2 /\ established = 2 /\ handles = {} /\ p.sid = 0

\* C18: every new LogBot registers with the configured nickname 'tonkon' and
\* keeps it until the server accepts a candidate, whatever nickname the
\* previous session ended with.
C18_SessionsStartWithBaseNick ==
    /\ ev.kind = "connectionMade" =>
        /\ ops # << >>
        /\ ops[1] = Op("register", p.sid, BaseNick, <<>>, <<>>)
        /\ p.nickname = BaseNick /\ p.attempted = BaseNick
        /\ p.collisions = 0
    /\ (p.sid # 0 /\ ~p.registered) => p.nickname = BaseNick

\* a session starts after one that was registered as 'tonkon^^'
C18_Witness ==
    /\ ev.kind = "connectionMade" /\ established = 2
    /\ prevNick = BaseNick \o <<"^", "^">>
    /\ p.nickname = BaseNick

\* the identifier up to, not including, its first '!'
RECURSIVE UpToBang(_)
UpToBang(s) ==
    IF s = << >> THEN << >>
    ELSE IF Head(s) = "!" THEN << >>
    ELSE << Head(s) >> \o UpToBang(Tail(s))

\* an identifier without routing metadata
Plain(s) == \A i \in 1..Len(s) : s[i] # "!"

\* C19: the name privmsg logs and passes on, the name action logs and the
\* old name irc_NICK logs are each the raw identifier cut at its first '!',
\* the identifier itself when it holds no '!'.
C19_SenderNormalised ==
    /\ ev.kind = "privmsg" =>
        /\ Len(ops) = 2
        /\ ops[1].a = logLine(<<"<">> \o UpToBang(ev.user) \o <<"> ">> \o ev.msg)
        /\ ops[2].a = UpToBang(ev.user)
        /\ Plain(ev.user) => ops[2].a = ev.user
    /\ ev.kind = "action" =>
        /\ Len(ops) = 1
        /\ ops[1].a = logLine(<<"* ">> \o UpToBang(ev.user) \o <<" ">> \o ev.msg)
    /\ ev.kind = "irc_NICK" =>
        /\ Len(ops) = 1
        /\ ops[1].a = logLine(UpToBang(ev.user) \o <<" is now known as ">>
                              \o ev.msg)

\* 'bob!u!h' was logged as 'bob' by privmsg, by action and by irc_NICK
C19_Witness ==
    LET bob == <<"b", "o", "b">>
        raw == <<"b", "o", "b", "!", "u", "!", "h">>
    IN  /\ ev.kind = "irc_NICK" /\ ev.user = raw
        /\ Len(file) >= 4
        /\ file[Len(file)] = logLine(bob \o <<" is now known as ">> \o ev.msg)
        /\ \E m \in Msgs :
            /\ file[Len(file) - 1] = logLine(<<"* ">> \o bob \o <<" ">> \o m)
            /\ file[Len(file) - 2] = logLine(<<"<">> \o bob \o <<"> ">> \o m)

=============================================================================
